---- MODULE Spec2Model ----
(***************************************************************************)
(* Model of worker/process.py: the note segmenter (transcribe), the        *)
(* rhythmic quantizer (quantize_notes), the transpose-only mode and the    *)
(* auto-classification of main.                                            *)
(*                                                                         *)
(* Units.  Python floats are modelled by exact rationals held as integers: *)
(*   - pre-quantization times are in samples (seconds * sr), so that       *)
(*     frameIndex * hop / sr is the integer frameIndex * hop;              *)
(*   - quantized times are in units of 1/(unit * tempo * divisions) s,     *)
(*     where `unit` is the number of input ticks per second, so that the   *)
(*     grid 60/tempo/(divisions/4) s is the integer 240 * unit;            *)
(*   - normalized energies (rmse) are in thousandths, smoothed pitches     *)
(*     (midi_smooth) in tenths of a semitone.                              *)
(***************************************************************************)
EXTENDS Integers, Sequences, FiniteSets

VARIABLES
    pc,             \* position in the modelled function
    i,              \* transcribe: index of the next frame (frames read so far)
    v,              \* transcribe: voiced[i] of the frame read last
    p,              \* transcribe: p of the voiced frame read last
    current_start,  \* transcribe: start index of the open note, or None
    current_pitch,  \* transcribe: pitch of the open note, or None
    rmse,           \* transcribe: rmse[current_start:i], the slice the loop reads
    rmse_min,       \* transcribe: the least of rmse[0:i], or None
    rmse_max,       \* transcribe: the greatest of rmse[0:i], or None
    notes,          \* the note list (before quantization)
    tempo,          \* the tempo handed to quantize_notes
    out,            \* what quantize_notes returned
    data,           \* transpose-only: the transcript JSON on disk
    input,          \* transpose-only: the JSON the last run read
    orig,           \* transpose-only: the JSON the first run read
    applied,        \* transpose-only: the --instrument of every run so far
    result,         \* transpose-only: how the last run ended
    instrument      \* auto-classify: the instrument selected

vars == <<pc, i, v, p, current_start, current_pitch, rmse, rmse_min, rmse_max,
          notes, tempo, out, data, input, orig, applied, result, instrument>>

segVars == <<i, v, p, current_start, current_pitch, rmse, rmse_min, rmse_max>>
transVars == <<data, input, orig, applied, result>>

----------------------------------------------------------------------------
(* Bounds of the model. *)

\* the longest track, in frames
MaxFrames == 9
\* transposition runs in a row
MaxRuns == 2
\* the longest note list handed to the classifier
MaxNotes == 3
\* the latest note boundary handed to the quantizer, in steps of 25 ms
MaxTicks == 8

----------------------------------------------------------------------------
(* Program constants. *)

hop == 256
sr == 44100
None == -1
NaN == -1000

\* normalized energies of a frame, in thousandths (80 is the 0.08 threshold)
Energies == {0, 80, 500, 1000}
\* smoothed pitches of a frame, in tenths of a semitone, or NaN
SmoothPitches == {NaN, 605, 610, 615}
\* tempos handed to transcribe
Tempos == {60, 120, 150}

----------------------------------------------------------------------------
(* Arithmetic helpers. *)

Abs(x) == IF x < 0 THEN -x ELSE x

\* Python's round(num/den) for den > 0: nearest integer, halves to even
RoundHalfEven(num, den) ==
    LET q == num \div den
        r == num % den
    IN  IF 2 * r < den THEN q
        ELSE IF 2 * r > den THEN q + 1
        ELSE IF q % 2 = 0 THEN q ELSE q + 1

RECURSIVE Insert(_, _)
Insert(x, s) ==
    IF s = <<>> THEN <<x>>
    ELSE IF x <= Head(s) THEN <<x>> \o s
    ELSE <<Head(s)>> \o Insert(x, Tail(s))

RECURSIVE Sorted(_)
Sorted(s) == IF s = <<>> THEN <<>> ELSE Insert(Head(s), Sorted(Tail(s)))

\* twice np.median(s) of a non-empty sequence: the middle element, or the
\* mean of the two middle elements
Median2(s) ==
    LET t == Sorted(s)
        n == Len(t)
    IN  IF n % 2 = 1 THEN 2 * t[(n + 1) \div 2]
        ELSE t[n \div 2] + t[n \div 2 + 1]

----------------------------------------------------------------------------
(* transcribe: voicing, velocity, the segmenter. *)

\* voiced = (rmse > 0.08) & (~np.isnan(midi_smooth))
Voiced(e, m) == e > 80 /\ m # NaN

\* p = int(round(midi_smooth[i]))
RoundPitch(m) == RoundHalfEven(m, 10)

\* Velocity with the lower clip at 0 instead of 1
VelocityClipZero(w) ==
    LET num == Median2(w) * 127
        den == 2000
    IN  IF num < 0 THEN 0
        ELSE IF num > 127 * den THEN 127
        ELSE RoundHalfEven(num, den)

\* int(round(float(np.clip(np.median(w) * 127.0, 1, 127))))
Velocity(w) ==
    LET num == Median2(w) * 127
        den == 2000
    IN  IF num < den THEN 1
        ELSE IF num > 127 * den THEN 127
        ELSE RoundHalfEven(num, den)

\* frameIndex * hop / sr, in samples
FrameTime(k) == k * hop

\* e - s > 0.04, with s and e in samples
LongEnough(s, e) == (e - s) * 100 > 4 * sr

\* music21's nameWithOctave, as the pair <<pitch class, octave>>
midi_to_name(m) == <<m % 12, (m \div 12) - 1>>

Note(s, e, m, w) ==
    [start |-> s, end |-> e, midi |-> m, name |-> midi_to_name(m),
     velocity |-> Velocity(w)]

\* the two closing paths inside the loop: emit only if long enough
CloseAt(k) ==
    LET s == FrameTime(current_start)
        e == FrameTime(k)
    IN  IF LongEnough(s, e)
        THEN Append(notes, Note(s, e, current_pitch, rmse))
        ELSE notes

\* TrackEnd at the index of the last frame instead of the frame count
TrackEndLastFrame(n) == FrameTime(n - 1)

\* e = len(f0) * hop / sr
TrackEnd(n) == FrameTime(n)

\* the closing path after the loop: no duration filter
CloseAtEnd(n) ==
    Append(notes, Note(FrameTime(current_start), TrackEnd(n), current_pitch, rmse))

\* Reopen that keeps the start of a segment the duration filter discarded
ReopenMerging(k) ==
    IF LongEnough(FrameTime(current_start), FrameTime(k)) THEN k ELSE current_start

\* current_start = i after a pitch change closed the open note
Reopen(k) == k

\* whether the voiced frame's pitch q closes the open note: abs(p - cur) > tol
PitchChanged(q, cur) == 2 * Abs(q - cur) > 1

\* one iteration of `for i, v in enumerate(voiced)`
Frame(e, m) ==
    /\ pc = "loop"
    /\ i < MaxFrames
    /\ v' = Voiced(e, m)
    /\ IF Voiced(e, m)
       THEN LET q == RoundPitch(m) IN
            /\ p' = q
            /\ IF current_start = None
               THEN /\ current_start' = i
                    /\ current_pitch' = q
                    /\ rmse' = <<e>>
                    /\ notes' = notes
               ELSE IF PitchChanged(q, current_pitch)
               THEN /\ notes' = CloseAt(i)
                    /\ current_start' = Reopen(i)
                    /\ current_pitch' = q
                    /\ rmse' = <<e>>
               ELSE /\ rmse' = Append(rmse, e)
                    /\ UNCHANGED <<current_start, current_pitch, notes>>
       ELSE /\ p' = p
            /\ IF current_start # None /\ current_pitch # None
               THEN /\ notes' = CloseAt(i)
                    /\ current_start' = None
                    /\ current_pitch' = None
                    /\ rmse' = <<>>
               ELSE UNCHANGED <<current_start, current_pitch, rmse, notes>>
    /\ rmse_min' = IF rmse_min = None \/ e < rmse_min THEN e ELSE rmse_min
    /\ rmse_max' = IF rmse_max = None \/ e > rmse_max THEN e ELSE rmse_max
    /\ i' = i + 1
    /\ UNCHANGED <<pc, tempo, out, instrument>>
    /\ UNCHANGED transVars

\* rmse = (rmse - rmse.min()) / (rmse.ptp() + 1e-9): the least energy of a
\* track is 0, the greatest 1 (or 0, when every frame has the same energy)
Normalized == rmse_min = 0 /\ rmse_max \in {0, 1000}

\* after the loop: close the note still open (len(f0) = i frames were read)
EndOfTrack ==
    /\ pc = "loop"
    /\ Normalized
    /\ notes' = IF current_start # None /\ current_pitch # None
                THEN CloseAtEnd(i)
                ELSE notes
    /\ pc' = "closed"
    /\ UNCHANGED <<tempo, out, instrument>>
    /\ UNCHANGED segVars
    /\ UNCHANGED transVars

----------------------------------------------------------------------------
(* quantize_notes. *)

\* the divisions transcribe passes
Divisions == 16

\* grid = 60.0 / tempo / (divisions / 4.0), in units of
\* 1/(unit * tempo * divisions) s
Grid(unit) == 240 * unit

\* round(x / grid) for x in ticks of 1/unit s
GridIndex(x, t, divisions, unit) == RoundHalfEven(x * t * divisions, 240 * unit)

\* Extend by two grid units
ExtendTwice(s, unit) == s + 2 * Grid(unit)

\* the extended end of a note whose rounded end is not after its rounded start
Extend(s, unit) == s + Grid(unit)

\* Collapsed with a strict comparison
CollapsedStrict(s, e) == e < s

\* whether rounding collapsed the note: e <= s
Collapsed(s, e) == e <= s

\* the body of the loop over the notes
quantize_note(n, t, divisions, unit) ==
    LET s == GridIndex(n.start, t, divisions, unit) * Grid(unit)
        e == GridIndex(n.end, t, divisions, unit) * Grid(unit)
    IN  [n EXCEPT !.start = s,
                  !.end = IF Collapsed(s, e) THEN Extend(s, unit) ELSE e]

quantize_notes(ns, t, divisions, unit) ==
    IF divisions <= 0 THEN ns
    ELSE [k \in 1..Len(ns) |-> quantize_note(ns[k], t, divisions, unit)]

\* return quantize_notes(notes, tempo=tempo, divisions=16)
Return ==
    /\ pc = "closed"
    /\ \E t \in Tempos :
          /\ tempo' = t
          /\ out' = quantize_notes(notes, t, Divisions, sr)
    /\ pc' = "returned"
    /\ UNCHANGED <<notes, instrument>>
    /\ UNCHANGED segVars
    /\ UNCHANGED transVars

----------------------------------------------------------------------------
(* main: auto-classification and the transcript written from audio. *)

Instruments == <<"soprano", "alto", "tenor", "baritone">>

centers(k) ==
    CASE k = "soprano" -> 76
      [] k = "alto" -> 69
      [] k = "tenor" -> 62
      [] k = "baritone" -> 55

Midis(ns) == [k \in 1..Len(ns) |-> ns[k].midi]

\* twice med: float(np.median(midis)) if len(midis) else 69.0
Med2(ns) == IF Len(ns) = 0 THEN 2 * 69 ELSE Median2(Midis(ns))

\* Better that also replaces on an equal key (the last smallest wins)
BetterOrEqual(d, best) == d <= best

\* whether min replaces its best candidate: only by a strictly smaller key
Better(d, best) == d < best

\* min(keys, key = lambda k: abs(centers[k] - med)): the first smallest
RECURSIVE MinBy(_, _, _)
MinBy(keys, best, med2) ==
    IF keys = <<>> THEN best
    ELSE IF Better(Abs(2 * centers(Head(keys)) - med2),
                   Abs(2 * centers(best) - med2))
         THEN MinBy(Tail(keys), Head(keys), med2)
         ELSE MinBy(Tail(keys), best, med2)

AutoInstrument(ns) == MinBy(Tail(Instruments), Head(Instruments), Med2(ns))

\* --instrument values
InstrumentArgs == {"auto", "soprano", "alto", "tenor", "baritone", "flute"}

\* key_obj.name, or "C major" when the analysis fails
Keys == {"C major", "A minor"}

\* the audio branch's end: classify and write the transcript
WriteTranscript(arg, key) ==
    /\ pc = "returned"
    /\ instrument' = IF arg = "auto" THEN AutoInstrument(out) ELSE arg
    /\ data' = [meta |-> [tempo |-> tempo, key |-> key, meter |-> "4/4",
                          instrument |-> instrument'],
                notes |-> out]
    /\ pc' = "done"
    /\ UNCHANGED <<notes, tempo, out, input, orig, applied, result>>
    /\ UNCHANGED segVars

EmptyDict == [k \in {} |-> 0]

Init ==
    /\ pc = "loop"
    /\ i = 0
    /\ v = FALSE
    /\ p = None
    /\ current_start = None
    /\ current_pitch = None
    /\ rmse = <<>>
    /\ rmse_min = None
    /\ rmse_max = None
    /\ notes = <<>>
    /\ tempo = 0
    /\ out = <<>>
    /\ data = EmptyDict
    /\ input = EmptyDict
    /\ orig = EmptyDict
    /\ applied = <<>>
    /\ result = "none"
    /\ instrument = "none"

Next ==
    \/ \E e \in Energies, m \in SmoothPitches : Frame(e, m)
    \/ EndOfTrack
    \/ Return
    \/ \E arg \in InstrumentArgs, key \in Keys : WriteTranscript(arg, key)

Spec == Init /\ [][Next]_vars

----------------------------------------------------------------------------
(* quantize_notes on its own: any note list, any start and end. *)

\* note boundaries in milliseconds (1000 ticks per second)
QTimes == {25 * k : k \in 0..MaxTicks}

QNotes == [start : QTimes, end : QTimes]

QInit ==
    /\ pc = "quantize"
    /\ notes \in {<<a>> : a \in QNotes} \cup {<<a, b>> : a \in QNotes, b \in QNotes}
    /\ tempo \in Tempos
    /\ out = <<>>
    /\ i = 0
    /\ v = FALSE
    /\ p = None
    /\ current_start = None
    /\ current_pitch = None
    /\ rmse = <<>>
    /\ rmse_min = None
    /\ rmse_max = None
    /\ data = EmptyDict
    /\ input = EmptyDict
    /\ orig = EmptyDict
    /\ applied = <<>>
    /\ result = "none"
    /\ instrument = "none"

QuantizeCall ==
    /\ pc = "quantize"
    /\ out' = quantize_notes(notes, tempo, Divisions, 1000)
    /\ pc' = "quantized"
    /\ UNCHANGED <<notes, tempo, instrument>>
    /\ UNCHANGED segVars
    /\ UNCHANGED transVars

QNext == QuantizeCall

QSpec == QInit /\ [][QNext]_vars

----------------------------------------------------------------------------
(* main, transpose-only mode (--input-json). *)

\* dict.get(key, default)
Get(d, key, default) == IF key \in DOMAIN d THEN d[key] ELSE default

\* {**d, key: val}
With(d, key, val) ==
    [k \in DOMAIN d \cup {key} |-> IF k = key THEN val ELSE d[k]]

semitone_map(k) ==
    CASE k = "soprano" -> 2
      [] k = "alto" -> 9
      [] k = "tenor" -> 14
      [] k = "baritone" -> 21

\* Shift with tenor a bare octave (12) instead of 14
ShiftTenorOctave(target) ==
    CASE target = "alto" -> 9
      [] target = "tenor" -> 12
      [] target = "baritone" -> 21
      [] OTHER -> 2

\* semitone_map.get(target, 2)
Shift(target) ==
    IF target \in {"soprano", "alto", "tenor", "baritone"}
    THEN semitone_map(target) ELSE 2

\* args.instrument if args.instrument != "auto" else meta.get("instrument", "soprano")
Target(arg, meta) ==
    IF arg # "auto" THEN arg ELSE Get(meta, "instrument", "soprano")

\* {**n, "midi": m, "name": midi_to_name(m)} with m = int(n["midi"]) + shift
TransposeNote(n, shift) ==
    With(With(n, "midi", n.midi + shift), "name", midi_to_name(n.midi + shift))

\* meta["instrument"] = target
TagInstrument(meta, target) == With(meta, "instrument", target)

\* the keys to_stream reads of every note
StreamKeys == {"start", "end", "midi"}

\* one run of the program with --input-json and --instrument arg
TransposeOnly(arg) ==
    /\ pc = "transpose"
    /\ Len(applied) < MaxRuns
    /\ input' = data
    /\ applied' = Append(applied, arg)
    /\ LET ns == Get(data, "notes", <<>>)
           meta == Get(data, "meta", EmptyDict)
           target == Target(arg, meta)
           shift == Shift(target)
       IN  IF \E k \in 1..Len(ns) : "midi" \notin DOMAIN ns[k]
           THEN \* n["midi"] raises before anything is written
                /\ result' = "KeyError"
                /\ data' = data
           ELSE IF \E k \in 1..Len(ns) : ~(StreamKeys \subseteq DOMAIN ns[k])
           THEN \* to_stream raises before anything is written
                /\ result' = "KeyError"
                /\ data' = data
           ELSE /\ result' = "written"
                /\ data' = [meta |-> TagInstrument(meta, target),
                            notes |-> [k \in 1..Len(ns) |-> TransposeNote(ns[k], shift)]]
    /\ UNCHANGED <<pc, orig, notes, tempo, out, instrument>>
    /\ UNCHANGED segVars

\* the midi values of the notes of an input transcript
MidiInputs == {0, 60, 127}

GoodNote(m) ==
    [start |-> 0, end |-> 1, midi |-> m, name |-> midi_to_name(m), velocity |-> 64]

\* well-formed notes, a note without "midi", a note without "start"
NoteInputs ==
    {GoodNote(m) : m \in MidiInputs}
    \cup {[start |-> 0, end |-> 1, velocity |-> 64]}
    \cup {[end |-> 1, midi |-> 60, velocity |-> 64]}

NoteLists ==
    {<<>>} \cup {<<a>> : a \in NoteInputs}
    \cup {<<a, b>> : a \in NoteInputs, b \in NoteInputs}

MetaInputs ==
    {[tempo |-> 120, key |-> "C major", meter |-> "4/4", instrument |-> x] :
        x \in {"alto", "flute"}}
    \cup {[tempo |-> 120, key |-> "C major", meter |-> "4/4"]}

\* the JSON objects a run may be handed: with or without "notes" and "meta"
InputTranscripts ==
    {[meta |-> mt, notes |-> ns] : mt \in MetaInputs, ns \in NoteLists}
    \cup {[meta |-> mt] : mt \in MetaInputs}
    \cup {[notes |-> ns] : ns \in NoteLists}
    \cup {EmptyDict}

TInit ==
    /\ pc = "transpose"
    /\ data \in InputTranscripts
    /\ orig = data
    /\ input = EmptyDict
    /\ applied = <<>>
    /\ result = "none"
    /\ notes = <<>>
    /\ tempo = 0
    /\ out = <<>>
    /\ i = 0
    /\ v = FALSE
    /\ p = None
    /\ current_start = None
    /\ current_pitch = None
    /\ rmse = <<>>
    /\ rmse_min = None
    /\ rmse_max = None
    /\ instrument = "none"

TNext == \E arg \in InstrumentArgs : TransposeOnly(arg)

TSpec == TInit /\ [][TNext]_vars

----------------------------------------------------------------------------
(* main, auto-classification on its own: any note list. *)

\* the midi values of the notes handed to the classifier
ClassifyMidis == {50, 55, 58, 59, 62, 65, 66, 69, 72, 73, 76, 80}

RECURSIVE SeqsUpTo(_, _)
SeqsUpTo(S, n) ==
    IF n = 0 THEN {<<>>}
    ELSE LET shorter == SeqsUpTo(S, n - 1)
         IN  shorter \cup {Append(s, x) : s \in shorter, x \in S}

CInit ==
    /\ pc = "classify"
    /\ notes = <<>>
    /\ out \in SeqsUpTo({[midi |-> m] : m \in ClassifyMidis}, MaxNotes)
    /\ instrument = "none"
    /\ tempo = 0
    /\ i = 0
    /\ v = FALSE
    /\ p = None
    /\ current_start = None
    /\ current_pitch = None
    /\ rmse = <<>>
    /\ rmse_min = None
    /\ rmse_max = None
    /\ data = EmptyDict
    /\ input = EmptyDict
    /\ orig = EmptyDict
    /\ applied = <<>>
    /\ result = "none"

\* if args.instrument == "auto": ... instrument = min(...)
Classify ==
    /\ pc = "classify"
    /\ instrument' = AutoInstrument(out)
    /\ pc' = "classified"
    /\ UNCHANGED <<notes, tempo, out>>
    /\ UNCHANGED segVars
    /\ UNCHANGED transVars

CNext == Classify

CSpec == CInit /\ [][CNext]_vars

----------------------------------------------------------------------------
(* Properties of the segmenter (Spec). *)

Last(s) == s[Len(s)]

\* C1: every note the segmenter emits, on every closing path, lasts at least
\* 0.04 s before quantization (end - start >= 0.04).
C1_MinDuration ==
    \A k \in 1..Len(notes) : (notes[k].end - notes[k].start) * 100 >= 4 * sr

\* energies in [0, 1] a note could span, voiced or not
EnergyWindows ==
    LET E == {0, 1, 500, 1000}
    IN  {<<a>> : a \in E} \cup {<<a, b>> : a \in E, b \in E}

\* C3: every emitted note, before and after quantization, has an integer
\* velocity in 1..127; the velocity of any span of energies in [0, 1] is in
\* 1..127, and it is 1 when the median energy is 0.
C3_VelocityRange ==
    /\ \A k \in 1..Len(notes) : notes[k].velocity \in 1..127
    /\ \A k \in 1..Len(out) : out[k].velocity \in 1..127
    /\ \A w \in EnergyWindows :
          /\ Velocity(w) \in 1..127
          /\ Median2(w) = 0 => Velocity(w) = 1

\* a note closed inside the loop and one closed at the end of the track
C3_Witness ==
    /\ pc = "closed"
    /\ Len(notes) = 2
    /\ notes[1].velocity = 64
    /\ notes[2].velocity = 127

\* C9 as claimed: a note open when the track ends is closed at the index of
\* the last frame, end = (N - 1) * hop / sr.
C9_EndAtLastFrame ==
    (pc = "closed" /\ current_start # None) =>
        /\ Len(notes) > 0
        /\ Last(notes).end = (i - 1) * hop

\* C9 as amended: a note open when the track ends is closed at the frame
\* count, end = N * hop / sr, with the start and pitch of the open note.
C9_EndAtFrameCount ==
    (pc = "closed" /\ current_start # None) =>
        /\ Len(notes) > 0
        /\ Last(notes).end = i * hop
        /\ Last(notes).start = current_start * hop
        /\ Last(notes).midi = current_pitch

C9_Witness ==
    /\ pc = "closed"
    /\ current_start # None
    /\ i - current_start >= 2
    /\ Last(notes).end = i * hop

\* C10: for a frame i read while a note is open: a voiced frame of another
\* pitch q closes the note at i and leaves Open(i, q), whether or not the
\* closed segment was long enough to be emitted; a voiced frame of the same
\* pitch changes nothing; an unvoiced frame closes the note at i and leaves
\* Idle.  A closed segment is emitted exactly when it lasts more than 0.04 s,
\* from the open note's start to frame i, so a note emitted from the new state
\* starts where the previous segment ended.
C10_Transitions ==
    [][(pc = "loop" /\ pc' = "loop" /\ i' = i + 1 /\ current_start # None) =>
          LET long == (i - current_start) * hop * 100 > 4 * sr
              closed ==
                  IF long
                  THEN /\ Len(notes') = Len(notes) + 1
                       /\ \A k \in 1..Len(notes) : notes'[k] = notes[k]
                       /\ Last(notes').start = current_start * hop
                       /\ Last(notes').end = i * hop
                       /\ Last(notes').midi = current_pitch
                  ELSE notes' = notes
          IN  /\ (v' /\ p' # current_pitch) =>
                    closed /\ current_start' = i /\ current_pitch' = p'
              /\ (v' /\ p' = current_pitch) =>
                    UNCHANGED <<current_start, current_pitch, notes>>
              /\ ~v' =>
                    closed /\ current_start' = None /\ current_pitch' = None
      ]_vars

\* a pitch change closed a discarded segment, then one closed an emitted note
C10_Witness ==
    /\ pc = "loop"
    /\ v
    /\ current_start = i - 1
    /\ Len(notes) = 1
    /\ notes[1].start > 0
    /\ notes[1].end = current_start * hop

----------------------------------------------------------------------------
(* Properties of quantize_notes (QSpec). *)

\* the grid unit g and an input time x, in the units of the quantized times
G == 240 * 1000
Scaled(x) == x * tempo * Divisions

\* y is a multiple of g nearest to the input time x
Nearest(y, x) == y % G = 0 /\ 2 * Abs(y - Scaled(x)) <= G

\* C2: every note quantize_notes returns has end > start; its start is the
\* nearest multiple of g; its end is the nearest multiple of g, or exactly
\* start + g when rounding gives end <= start.
C2_EndAfterStart ==
    pc = "quantized" =>
        /\ Len(out) = Len(notes)
        /\ \A k \in 1..Len(out) :
              LET rs == GridIndex(notes[k].start, tempo, Divisions, 1000) * G
                  re == GridIndex(notes[k].end, tempo, Divisions, 1000) * G
              IN  /\ out[k].end > out[k].start
                  /\ Nearest(out[k].start, notes[k].start)
                  /\ Nearest(re, notes[k].end)
                  /\ out[k].start = rs
                  /\ out[k].end = IF re <= rs THEN rs + G ELSE re

\* rounding collapsed a note whose end was after its start, and one whose end
\* was before its start
C2_Witness ==
    /\ pc = "quantized"
    /\ Len(out) = 2
    /\ notes[1].end > notes[1].start
    /\ notes[2].end < notes[2].start
    /\ out[1].end = out[1].start + G
    /\ out[2].end = out[2].start + G
    /\ GridIndex(notes[1].end, tempo, Divisions, 1000)
         = GridIndex(notes[1].start, tempo, Divisions, 1000)

\* notes k and k+1 are adjacent and each lasts more than 0.04 s
Adjacent(k) ==
    /\ k < Len(notes)
    /\ notes[k].end = notes[k + 1].start
    /\ notes[k].end - notes[k].start > 40
    /\ notes[k + 1].end - notes[k + 1].start > 40

\* first.end - second.start after quantization: an overlap when positive,
\* a gap when negative
Overlap(k) == out[k].end - out[k + 1].start

\* C8 as claimed: two adjacent notes overlap or gap by at most g/2 after
\* quantization.
C8_HalfGrid ==
    pc = "quantized" =>
        \A k \in 1..Len(notes) : Adjacent(k) => 2 * Abs(Overlap(k)) <= G

\* C8 as amended: two adjacent notes never gap after quantization and
\* overlap by at most one grid unit g.
C8_OneGrid ==
    pc = "quantized" =>
        \A k \in 1..Len(notes) : Adjacent(k) => (0 <= Overlap(k) /\ Overlap(k) <= G)

\* two adjacent notes that overlap by a whole grid unit
C8_Witness ==
    /\ pc = "quantized"
    /\ Adjacent(1)
    /\ Overlap(1) = G

----------------------------------------------------------------------------
(* Properties of the transpose-only mode (TSpec). *)

Saxes == {"soprano", "alto", "tenor", "baritone"}

Offset(a) ==
    CASE a = "soprano" -> 2
      [] a = "alto" -> 9
      [] a = "tenor" -> 14
      [] a = "baritone" -> 21

\* C4: with the same target A once or twice in a row, every note's midi is
\* the original plus once or twice offset(A), and meta.instrument is A both
\* times: the second run changes the pitches and not the metadata.
C4_TwiceSameTarget ==
    \A a \in Saxes :
        (result = "written" /\ "notes" \in DOMAIN orig
            /\ applied \in {<<a>>, <<a, a>>}) =>
            /\ data.meta.instrument = a
            /\ Len(data.notes) = Len(orig.notes)
            /\ \A k \in 1..Len(data.notes) :
                  data.notes[k].midi = orig.notes[k].midi + Len(applied) * Offset(a)
            /\ Len(applied) = 2 =>
                  /\ input.meta = data.meta
                  /\ \A k \in 1..Len(data.notes) :
                        data.notes[k].midi # input.notes[k].midi

C4_Witness ==
    /\ applied = <<"tenor", "tenor">>
    /\ result = "written"
    /\ Len(data.notes) = 2
    /\ data.notes[1].midi = 88

\* a transcript without "notes", without "meta", or with a note without "midi"
Malformed(d) ==
    \/ "notes" \notin DOMAIN d
    \/ "meta" \notin DOMAIN d
    \/ \E k \in 1..Len(d.notes) : "midi" \notin DOMAIN d.notes[k]

\* C5: a run on a malformed transcript ends in an error and writes nothing.
C5_MalformedRejected ==
    (result # "none" /\ Malformed(input)) =>
        (result # "written" /\ data = input)

\* C6: every note of a written transcript has midi in 0..127, the notes of
\* the first input having midi in 0..127.
C6_MidiRange ==
    (result = "written" /\ "notes" \in DOMAIN orig
        /\ \A k \in 1..Len(orig.notes) : orig.notes[k].midi \in 0..127) =>
        \A k \in 1..Len(data.notes) : data.notes[k].midi \in 0..127

----------------------------------------------------------------------------
(* Properties of the auto-classification (CSpec). *)

Center(a) ==
    CASE a = "soprano" -> 76
      [] a = "alto" -> 69
      [] a = "tenor" -> 62
      [] a = "baritone" -> 55

Priority(a) ==
    CASE a = "soprano" -> 1
      [] a = "alto" -> 2
      [] a = "tenor" -> 3
      [] a = "baritone" -> 4

\* twice the distance of a's center to the median midi of the notes
Distance2(a) == Abs(2 * Center(a) - Median2(Midis(out)))

\* C7: the instrument selected for a non-empty note list has the center
\* closest to the median midi, and among equally close centers it is the
\* first of soprano, alto, tenor, baritone.
C7_ClosestCenterFirst ==
    (pc = "classified" /\ Len(out) > 0) =>
        /\ instrument \in Saxes
        /\ \A a \in Saxes :
              \/ Distance2(instrument) < Distance2(a)
              \/ Distance2(instrument) = Distance2(a)
                    /\ Priority(instrument) <= Priority(a)

\* the medians 72.5, 65.5 and 58.5 lie between two centers
C7_Witness ==
    /\ pc = "classified"
    /\ Len(out) = 2
    /\ Median2(Midis(out)) = 131
    /\ instrument = "alto"

====
